---- MODULE Spec2Model ----
(***************************************************************************)
(* Model of the prediction pipeline of Smart Investment Sentinel:          *)
(*   modules/predictor.py   PricePredictor                                 *)
(*   modules/data_loader.py get_realtime_data                              *)
(*   utils/db_manager.py    DatabaseManager.save_record                    *)
(*   app.py                 main (the analysis request)                    *)
(*                                                                         *)
(* Number representation.  Prices are integers counting cents (0.01), so   *)
(* round(x, 2) is rounding to an integer.  Sentiment scores are integers   *)
(* counting hundredths, random factors too.  Products of prices and        *)
(* factors are kept exactly, as a numerator over a named denominator.      *)
(* Binary floating-point error is not modelled; where round() meets an     *)
(* exact decimal tie, the float that stands for the value may lie on       *)
(* either side of it, so both neighbours are possible results.             *)
(***************************************************************************)
EXTENDS Integers, Naturals, Sequences, FiniteSets, TLC

VARIABLES
    data,             \* frame handed to _prepare_features           (SpecFeatures)
    features,         \* [done, raised, rows]: its result             (SpecFeatures)
    pc,               \* position of the request / the predictor's life
    model,            \* PricePredictor.model
    is_trained,       \* PricePredictor.is_trained
    scaler_fitted,    \* whether PricePredictor.scaler has been fit
    train,            \* what _train_model saw and how it ended (history)
    call,             \* the last predict_next call and its outcome (history)
    conf,             \* the last get_prediction_confidence call (history)
    current_price,    \* main(): current_price
    historical_data,  \* main(): historical_data
    sentiment_score,  \* main(): sentiment_score
    prediction,       \* main(): prediction
    record_id,        \* what save_record returned to main()
    db,               \* rows of analysis_history, in insertion order
    requests,         \* number of analysis requests started
    texts,            \* argument of the sentiment analysis          (SpecSentiment)
    analysis,         \* result of the sentiment analysis             (SpecSentiment)
    previous,         \* cause of the predict_next call before the last (history)
    info,             \* the last get_model_info result (history)
    now,              \* the database clock, in days
    last_id,          \* sqlite_sequence of analysis_history: the last id given out
    last_op           \* the last DatabaseManager call and its outcome (history)

vars == <<data, features, pc, model, is_trained, scaler_fitted, train, call,
          conf, current_price, historical_data, sentiment_score, prediction,
          record_id, db, requests, texts, analysis, previous, info, now,
          last_id, last_op>>

featureVars == <<data, features>>
predictorVars == <<model, is_trained, scaler_fitted, train, call, conf>>
appVars == <<current_price, historical_data, sentiment_score, prediction, record_id,
            db, requests>>
nlpVars == <<texts, analysis>>
lifeVars == <<previous, info>>
storeVars == <<now, last_id, last_op>>

----------------------------------------------------------------------------
(* Bounds *)

MaxLen == 6          \* longest frame handed to _prepare_features in SpecFeatures
MaxBars == 10        \* longest series the market-data source returns
MaxRequests == 2     \* analysis requests per run of the application
MaxTexts == 3        \* longest list of texts handed to the sentiment analysis
MaxRows == 3         \* records saved in SpecStore
MaxDays == 2         \* days the database clock advances in SpecStore

(* Input sets *)

Closes == {1, 2}                    \* close prices of SpecFeatures frames
Volumes == {1, 2}                   \* volumes of SpecFeatures frames
Prices == {31, 100}                 \* current prices, in cents
Sentiments == {-100, -50, -49, -20, -19, 0, 19, 20, 49, 50, 100}
BasePredictions == {-5000, 0, 31, 96, 100, 104, 100000}   \* regressor outputs, in cents
RandomFactors == {98, 100, 102}     \* random.uniform(0.98, 1.02)
ConfPredictions == {29, 31, 32, 94, 95, 96, 97, 99, 100, 101, 103, 105, 106}
PredictBars == {0, 4, 5, MaxBars}   \* lengths of the frame fetched by predict_next
AppPrices == {31, 100}
AppBars == {0, 4, MaxBars}          \* lengths of the frame fetched by main()
AppSentiments == {-50, 0}
AppBasePredictions == {0, 100, 100000}
AppRandomFactors == {100}

None == "None"                      \* model = None
NoId == 0                           \* save_record returned None (row ids start at 1)

----------------------------------------------------------------------------
(* Helpers *)

Min(a, b) == IF a <= b THEN a ELSE b
Max(a, b) == IF a >= b THEN a ELSE b
Abs(a) == IF a >= 0 THEN a ELSE -a

RECURSIVE SumSeq(_)
SumSeq(s) == IF s = <<>> THEN 0 ELSE Head(s) + SumSeq(Tail(s))

RECURSIVE Gcd(_, _)
Gcd(a, b) == IF b = 0 THEN a ELSE Gcd(b, a % b)

RECURSIVE LcmSeq(_)
LcmSeq(s) ==
    IF s = <<>> THEN 1
    ELSE LET l == LcmSeq(Tail(s)) IN (Head(s) * l) \div Gcd(Head(s), l)

\* The results round() can give for num/den (den > 0): the nearest integer, and
\* on an exact tie either neighbour.
Round(num, den) ==
    LET q == num \div den
        r == num % den
    IN  IF 2 * r < den THEN {q}
        ELSE IF 2 * r > den THEN {q + 1}
        ELSE {q, q + 1}

----------------------------------------------------------------------------
(* modules/predictor.py: _prepare_features *)

\* data.sort_index(): rows in ascending order of the (unique) timestamp
RECURSIVE Insert(_, _)
Insert(b, s) ==
    IF s = <<>> THEN <<b>>
    ELSE IF b.ts < Head(s).ts THEN <<b>> \o s
    ELSE <<Head(s)>> \o Insert(b, Tail(s))

RECURSIVE sort_index(_)
sort_index(s) == IF s = <<>> THEN <<>> ELSE Insert(Head(s), sort_index(Tail(s)))

\* variant: the slice is iloc[i-3:i+1]
Window_of_four(col, i) == SubSeq(col, i - 3, i)

\* data[col].iloc[i-4:i+1] for the 1-based row i >= 5
Window(col, i) == SubSeq(col, i - 4, i)

\* returns.std() of Window.pct_change().dropna(): the sample deviation (ddof = 1)
\* of the 4 returns of a 5-close window.  Held as its square, the variance,
\* num/den, with every return brought to the common denominator
\* D = lcm(c1, c2, c3, c4): R[t] = D * (c[t+1]/c[t] - 1).
ReturnsVariance(w) ==
    LET D == LcmSeq(SubSeq(w, 1, Len(w) - 1))
        R == [t \in 1..(Len(w) - 1) |-> ((w[t + 1] - w[t]) * D) \div w[t]]
        n == Len(R)
        S == SumSeq(R)
        dev == [t \in 1..n |-> (n * R[t] - S) * (n * R[t] - S)]
    IN  [num |-> SumSeq(dev), den |-> n * n * (n - 1) * D * D]

\* variant: prev_close is read at i, not at i-1
FeatureRow_unshifted(sorted, i) ==
    LET close == [k \in 1..Len(sorted) |-> sorted[k].close]
        volume == [k \in 1..Len(sorted) |-> sorted[k].vol]
    IN  [ma_5 |-> IF i >= 5 THEN [num |-> SumSeq(Window(close, i)), den |-> 5]
                  ELSE [num |-> close[i], den |-> 1],
         prev_close |-> close[i],
         volume_ma |-> IF i >= 5 THEN [num |-> SumSeq(Window(volume, i)), den |-> 5]
                       ELSE [num |-> volume[i], den |-> 1],
         volatility |-> IF i >= 5 THEN ReturnsVariance(Window(close, i))
                        ELSE [num |-> 0, den |-> 1]]

\* the row appended for the 1-based index i (the code's i is i - 1)
FeatureRow(sorted, i) ==
    LET close == [k \in 1..Len(sorted) |-> sorted[k].close]
        volume == [k \in 1..Len(sorted) |-> sorted[k].vol]
    IN  [ma_5 |-> IF i >= 5 THEN [num |-> SumSeq(Window(close, i)), den |-> 5]
                  ELSE [num |-> close[i], den |-> 1],
         prev_close |-> IF i > 1 THEN close[i - 1] ELSE close[i],
         volume_ma |-> IF i >= 5 THEN [num |-> SumSeq(Window(volume, i)), den |-> 5]
                       ELSE [num |-> volume[i], den |-> 1],
         volatility |-> IF i >= 5 THEN ReturnsVariance(Window(close, i))
                        ELSE [num |-> 0, den |-> 1]]

\* variant: the loop starts at the second row
prepare_features_drops_first(frame) ==
    LET sorted == sort_index(frame)
    IN  [i \in 1..(Len(sorted) - 1) |-> FeatureRow(sorted, i + 1)]

prepare_features(frame) ==
    LET sorted == sort_index(frame)
    IN  [i \in 1..Len(sorted) |-> FeatureRow(sorted, i)]

----------------------------------------------------------------------------
(* modules/data_loader.py: get_realtime_data *)

\* A series of n bars, oldest first, every close equal to c.
Series(n, c) == [i \in 1..n |-> [ts |-> i, close |-> c, vol |-> 1]]

Reverse(s) == [i \in 1..Len(s) |-> s[Len(s) + 1 - i]]

\* What pro.daily may do for a ticker whose closes are c: it raises, or it
\* returns a frame, newest first, of one of the given lengths.
DailyFrames(c, lengths) ==
    {[raised |-> TRUE, rows |-> <<>>]}
        \cup {[raised |-> FALSE, rows |-> Reverse(Series(n, c))] : n \in lengths}

\* the call raised: pro.daily raised, or the frame was empty (ValueError);
\* both are printed and re-raised
Failure == [ok |-> FALSE, current_price |-> 0, df |-> <<>>]

\* otherwise the pair (float(current_price), df), df sorted ascending
get_realtime_data(raw) ==
    IF raw.raised THEN Failure
    ELSE IF raw.rows = <<>> THEN Failure
    ELSE LET df == sort_index(raw.rows)
         IN  [ok |-> TRUE, current_price |-> df[Len(df)].close, df |-> df]

----------------------------------------------------------------------------
(* modules/predictor.py: _train_model *)

RandomForest == "RandomForestRegressor"
LinearRegression == "LinearRegression"

NoFailure == "none"
\* the steps of _train_model that can raise once the data is in hand
TrainSteps == {"features", "split", "scale", "fit", "score", "metrics"}
Scores == {0, 1}                   \* held-out R2 of a candidate (compared only)

\* variant: the comparison is score >= best_score
BestModel_last_wins(scoreRF, scoreLR) ==
    IF scoreLR >= scoreRF THEN LinearRegression ELSE RandomForest

\* the candidate kept by the loop over models.items(): RandomForest is scored
\* first, LinearRegression replaces it only on a strictly higher score
BestModel(scoreRF, scoreLR) == IF scoreLR > scoreRF THEN LinearRegression ELSE RandomForest

\* variant: the two length checks are missing
train_model_without_length_checks(fetched, failAt, scoreRF, scoreLR) ==
    LET untrained == [raised |-> FALSE, model |-> None, is_trained |-> FALSE,
                      scaler_fitted |-> FALSE]
    IN  IF ~fetched.ok THEN untrained
        ELSE IF failAt # NoFailure THEN untrained
        ELSE [raised |-> FALSE, model |-> BestModel(scoreRF, scoreLR),
              is_trained |-> TRUE, scaler_fitted |-> TRUE]

\* variant: the except clause does not reset is_trained
train_model_keeps_flag(fetched, failAt, scoreRF, scoreLR) ==
    LET untrained == [raised |-> FALSE, model |-> None, is_trained |-> FALSE,
                      scaler_fitted |-> FALSE]
    IN  IF ~fetched.ok THEN untrained
        ELSE IF Len(fetched.df) < 10 THEN untrained
        ELSE IF failAt \in {"features", "split", "scale"} THEN untrained
        ELSE IF failAt \in {"fit", "score"} THEN [untrained EXCEPT !.scaler_fitted = TRUE]
        ELSE [raised |-> FALSE, model |-> BestModel(scoreRF, scoreLR),
              is_trained |-> TRUE, scaler_fitted |-> TRUE]

\* The predictor's fields at the end of __init__, which sets model = None,
\* is_trained = False and an unfitted scaler and then runs _train_model.
\* fetched is what get_realtime_data gave, failAt the step that raises (or None).
\* raised tells whether an exception leaves the constructor: the whole body of
\* _train_model is inside try/except Exception.
train_model(fetched, failAt, scoreRF, scoreLR) ==
    LET untrained == [raised |-> FALSE, model |-> None, is_trained |-> FALSE,
                      scaler_fitted |-> FALSE]
    IN  IF ~fetched.ok THEN untrained
        ELSE IF Len(fetched.df) < 10 THEN untrained
        ELSE IF failAt = "features" THEN untrained
        ELSE IF Len(Tail(prepare_features(fetched.df))) < 5 THEN untrained
        ELSE IF failAt = "split" \/ failAt = "scale" THEN untrained
        ELSE IF failAt = "fit" \/ failAt = "score"
             THEN [untrained EXCEPT !.scaler_fitted = TRUE]
        ELSE IF failAt = "metrics"
             THEN [raised |-> FALSE, model |-> BestModel(scoreRF, scoreLR),
                   is_trained |-> FALSE, scaler_fitted |-> TRUE]
        ELSE [raised |-> FALSE, model |-> BestModel(scoreRF, scoreLR),
              is_trained |-> TRUE, scaler_fitted |-> TRUE]

----------------------------------------------------------------------------
(* modules/predictor.py: _simple_predict, _apply_sentiment_adjustment *)

SimpleDen == 500000           \* (1 + s*0.02) = (5000 + s)/5000, random_factor = u/100
AdjDen == 10000               \* cents * (tenths weight) * (thousandths factor)

\* variant: the sentiment weight is 0.2
SimpleProduct_tenfold(cp, s, u) == cp * (5000 + s * 10) * u

\* current_price * (1 + sentiment_score * 0.02) * random_factor, over SimpleDen
SimpleProduct(cp, s, u) == cp * (5000 + s) * u

\* the values _simple_predict can return when random.uniform gives u
simple_predict(cp, s, u) == Round(SimpleProduct(cp, s, u), SimpleDen)

\* variant: the comparisons are strict
SentimentFactor_strict(s) ==
    IF s > 50 THEN 1005
    ELSE IF s > 20 THEN 1002
    ELSE IF s < -50 THEN 995
    ELSE IF s < -20 THEN 998
    ELSE 1000

\* variant: the positive band starts at 0.0
SentimentFactor_nonneg(s) ==
    IF s >= 50 THEN 1005
    ELSE IF s >= 0 THEN 1002
    ELSE IF s <= -50 THEN 995
    ELSE IF s <= -20 THEN 998
    ELSE 1000

\* sentiment_factor, in thousandths
SentimentFactor(s) ==
    IF s >= 50 THEN 1005
    ELSE IF s >= 20 THEN 1002
    ELSE IF s <= -50 THEN 995
    ELSE IF s <= -20 THEN 998
    ELSE 1000

adjustment_weight == 3        \* 0.3, in tenths

\* variant: the sentiment prediction replaces the base prediction
Blend_unweighted(base, s) == base * SentimentFactor(s) * 10

\* base*(1 - w) + base*sentiment_factor*w, over AdjDen
Blend(base, s) ==
    base * (10 - adjustment_weight) * 1000 + base * SentimentFactor(s) * adjustment_weight

\* max(lower_bound, min(upper_bound, adjusted_prediction)), over AdjDen
apply_sentiment_adjustment(base, cp, s) ==
    LET max_change == cp * 500
        lower_bound == cp * AdjDen - max_change
        upper_bound == cp * AdjDen + max_change
    IN  Max(lower_bound, Min(upper_bound, Blend(base, s)))

----------------------------------------------------------------------------
(* modules/predictor.py: predict_next *)

\* data[-5:]
LastRows(df, k) == IF Len(df) <= k THEN df ELSE SubSeq(df, Len(df) - k + 1, Len(df))

\* variant: the slice is historical_data[-4:]
inference_features_of_four(df) == LastRows(prepare_features(LastRows(df, 4)), 1)

\* latest_features = self._prepare_features(historical_data[-5:])[-1:]
inference_features(df) == LastRows(prepare_features(LastRows(df, 5)), 1)

\* variant: the try block ends before the feature, scaling and inference steps
predict_next_propagates(trained, mdl, cp, s, fetched, stepFails, base, u) ==
    LET simple(why) == {[raised |-> FALSE, path |-> "simple", cause |-> why,
                         current_price |-> cp, sentiment_score |-> s,
                         base |-> 0, factor |-> 0, adjusted |-> 0, u |-> u,
                         latest |-> <<>>,
                         value |-> v] : v \in simple_predict(cp, s, u)}
    IN  IF ~trained \/ mdl = None THEN simple("untrained")
        ELSE IF ~fetched.ok THEN simple("fetch_failed")
        ELSE IF Len(fetched.df) < 5 THEN simple("short")
        ELSE IF stepFails
             THEN {[raised |-> TRUE, path |-> "none", cause |-> "inference_failed",
                    current_price |-> cp, sentiment_score |-> s,
                    base |-> 0, factor |-> 0, adjusted |-> 0, u |-> 0,
                    latest |-> <<>>, value |-> 0]}
        ELSE {[raised |-> FALSE, path |-> "model", cause |-> "model",
               current_price |-> cp, sentiment_score |-> s,
               base |-> base, factor |-> SentimentFactor(s),
               adjusted |-> apply_sentiment_adjustment(base, cp, s), u |-> 0,
               latest |-> LastRows(prepare_features(LastRows(fetched.df, 5)), 1),
               value |-> v] : v \in Round(apply_sentiment_adjustment(base, cp, s), AdjDen)}

\* The outcomes of one call on a predictor whose fields are (trained, mdl),
\* one per result of round().  fetched is what
\* get_realtime_data gives at call time, stepFails whether the feature, scaling
\* or inference step raises, base the regressor's output, u the random factor.
\* cause tells which branch produced the value; on the model path base is the
\* regressor's output, factor the sentiment_factor and adjusted the value before
\* round(), over AdjDen (all 0 on the simple path, where u is the factor drawn;
\* u is 0 on the model path);
\* latest is latest_features, the one row handed to the scaler.
predict_next(trained, mdl, cp, s, fetched, stepFails, base, u) ==
    LET simple(why) == {[raised |-> FALSE, path |-> "simple", cause |-> why,
                         current_price |-> cp, sentiment_score |-> s,
                         base |-> 0, factor |-> 0, adjusted |-> 0, u |-> u,
                         latest |-> <<>>,
                         value |-> v] : v \in simple_predict(cp, s, u)}
    IN  IF ~trained \/ mdl = None THEN simple("untrained")
        ELSE IF ~fetched.ok THEN simple("fetch_failed")
        ELSE IF Len(fetched.df) < 5 THEN simple("short")
        ELSE IF stepFails THEN simple("inference_failed")
        ELSE LET latest_features == inference_features(fetched.df)
                 adjusted_prediction == apply_sentiment_adjustment(base, cp, s)
             IN  {[raised |-> FALSE, path |-> "model", cause |-> "model",
                   current_price |-> cp, sentiment_score |-> s,
                   base |-> base, factor |-> SentimentFactor(s),
                   adjusted |-> adjusted_prediction, u |-> 0,
                   latest |-> latest_features,
                   value |-> v] : v \in Round(adjusted_prediction, AdjDen)}

----------------------------------------------------------------------------
(* modules/predictor.py: get_prediction_confidence, in tenths *)

\* variant: the 1% comparison is strict
get_prediction_confidence_strict(trained, cp, pred) ==
    IF cp = 0 THEN 5
    ELSE LET change == Abs(pred - cp)
             confidence == IF change * 100 < cp THEN 9
                           ELSE IF change * 100 <= 3 * cp THEN 7
                           ELSE IF change * 100 <= 5 * cp THEN 5
                           ELSE 3
         IN  Min(10, IF trained THEN confidence + 1 ELSE confidence)

\* variant: the values of the 3% and 5% buckets are exchanged
get_prediction_confidence_swapped(trained, cp, pred) ==
    IF cp = 0 THEN 5
    ELSE LET change == Abs(pred - cp)
             confidence == IF change * 100 <= cp THEN 9
                           ELSE IF change * 100 <= 3 * cp THEN 5
                           ELSE IF change * 100 <= 5 * cp THEN 7
                           ELSE 3
         IN  Min(10, IF trained THEN confidence + 1 ELSE confidence)

\* variant: the bonus is added whether or not the model is trained
get_prediction_confidence_always_bonus(trained, cp, pred) ==
    IF cp = 0 THEN 5
    ELSE LET change == Abs(pred - cp)
             confidence == IF change * 100 <= cp THEN 9
                           ELSE IF change * 100 <= 3 * cp THEN 7
                           ELSE IF change * 100 <= 5 * cp THEN 5
                           ELSE 3
         IN  Min(10, confidence + 1)

get_prediction_confidence(trained, cp, pred) ==
    IF cp = 0 THEN 5                         \* ZeroDivisionError, caught
    ELSE LET change == Abs(pred - cp)        \* change_percent = change / cp
             confidence == IF change * 100 <= cp THEN 9
                           ELSE IF change * 100 <= 3 * cp THEN 7
                           ELSE IF change * 100 <= 5 * cp THEN 5
                           ELSE 3
         IN  Min(10, IF trained THEN confidence + 1 ELSE confidence)

\* get_model_info(): is_trained and model_type of the returned dict
get_model_info(trained, mdl) ==
    [called |-> TRUE, is_trained |-> trained,
     model_type |-> IF mdl # None THEN mdl ELSE "Simple"]

----------------------------------------------------------------------------
(* modules/nlp_analyzer.py.  Scores are in thousandths.  A text is what the    *)
(* code sees of it: whether it is a str, whether it or its cleaned form is     *)
(* empty, whether TextBlob raises on it, TextBlob's polarity and the numbers   *)
(* of positive and negative keywords it contains.                              *)

Polarities == {-1000, 0, 850}       \* blob.sentiment.polarity
KeywordCounts == {<<0, 0>>, <<9, 0>>, <<0, 2>>}   \* (chinese_pos_count, chinese_neg_count)

\* "nonstr": not a str; "empty": ''; "blank": clean_text gives ''; "raises":
\* TextBlob raises; "text": scored
TextItems ==
    {[kind |-> k, polarity |-> 0, pos |-> 0, neg |-> 0] :
        k \in {"nonstr", "empty", "blank", "raises"}}
    \cup {[kind |-> "text", polarity |-> p, pos |-> c[1], neg |-> c[2]] :
            p \in Polarities, c \in KeywordCounts}

\* isinstance(text, str)
IsStr(t) == t.kind # "nonstr"

\* the text passes both `continue`s and the try block
Scored(t) == t.kind = "text"

\* sentiment_score after the keyword adjustment and the clamp
TextScore(t) == Max(-1000, Min(1000, t.polarity + t.pos * 100 - t.neg * 100))

\* analyze_sentiment(x): x is a list (x.list) or a single str (x.text)
analyze_sentiment(x) ==
    LET text_list == IF x.is_list THEN x.list ELSE <<x.text>>
        scored == SelectSeq(text_list, Scored)
        sentiment_scores == [i \in 1..Len(scored) |-> TextScore(scored[i])]
        n == Len(sentiment_scores)
        total == SumSeq(sentiment_scores)
    IN  IF text_list = <<>> THEN {0}
        ELSE IF n = 0 THEN {0}
        ELSE IF total > 800 * n THEN {600}
        ELSE IF total < -800 * n THEN {-600}
        ELSE Round(total, n)

\* get_sentiment_label(num/den)
get_sentiment_label(num, den) ==
    IF num >= 500 * den THEN "positive"
    ELSE IF num >= 100 * den THEN "slightly positive"
    ELSE IF num >= -100 * den THEN "neutral"
    ELSE IF num >= -500 * den THEN "slightly negative"
    ELSE "negative"

\* score = analyze_sentiment(headline): one text, so the average is the score
\* itself and the rounding has one result
HeadlineScore(t) ==
    CHOOSE v \in analyze_sentiment([is_list |-> FALSE, list |-> <<>>, text |-> t]) : TRUE

\* variant: avg_score is the sum of the detailed scores
analyze_news_sentiment_sums(news_headlines) ==
    LET strs == SelectSeq(news_headlines, IsStr)
        detailed_scores == [i \in 1..Len(strs) |-> HeadlineScore(strs[i])]
        n == Len(detailed_scores)
        total == SumSeq(detailed_scores)
    IN  {[sentiment_score |-> v,
          sentiment_label |-> get_sentiment_label(total, 1),
          positive_count |-> Cardinality({i \in 1..n : detailed_scores[i] >= 100}),
          negative_count |-> Cardinality({i \in 1..n : detailed_scores[i] <= -100}),
          neutral_count |-> Cardinality({i \in 1..n : /\ detailed_scores[i] < 100
                                                       /\ detailed_scores[i] > -100}),
          detailed_scores |-> detailed_scores] : v \in {total}}

\* analyze_news_sentiment(news_headlines): the dicts it can return
analyze_news_sentiment(news_headlines) ==
    LET strs == SelectSeq(news_headlines, IsStr)
        detailed_scores == [i \in 1..Len(strs) |-> HeadlineScore(strs[i])]
        n == Len(detailed_scores)
        total == SumSeq(detailed_scores)
    IN  IF news_headlines = <<>>
        THEN {[sentiment_score |-> 0, sentiment_label |-> "neutral", positive_count |-> 0,
               negative_count |-> 0, neutral_count |-> 0, detailed_scores |-> <<>>]}
        ELSE {[sentiment_score |-> v,
               sentiment_label |-> IF n = 0 THEN get_sentiment_label(0, 1)
                                   ELSE get_sentiment_label(total, n),
               positive_count |-> Cardinality({i \in 1..n : detailed_scores[i] >= 100}),
               negative_count |-> Cardinality({i \in 1..n : detailed_scores[i] <= -100}),
               neutral_count |-> Cardinality({i \in 1..n : /\ detailed_scores[i] < 100
                                                            /\ detailed_scores[i] > -100}),
               detailed_scores |-> detailed_scores] :
                 v \in IF n = 0 THEN {0} ELSE Round(total, n)}

----------------------------------------------------------------------------
(* State before anything has run *)

NoFeatures == [done |-> FALSE, raised |-> FALSE, rows |-> <<>>]
NoTrain == [done |-> FALSE, raised |-> FALSE, ok |-> FALSE, bars |-> 0, failAt |-> NoFailure,
            scoreRF |-> 0, scoreLR |-> 0]
NoCall == [raised |-> FALSE, path |-> "none", cause |-> "none", current_price |-> 0,
           sentiment_score |-> 0, base |-> 0, factor |-> 0, adjusted |-> 0, u |-> 0,
           latest |-> <<>>, value |-> 0]
NoConf == [called |-> FALSE, trained |-> FALSE, current_price |-> 0, prediction |-> 0,
           value |-> 0]

\* PricePredictor.__init__ up to the call of _train_model
NewPredictor ==
    /\ model = None
    /\ is_trained = FALSE
    /\ scaler_fitted = FALSE
    /\ train = NoTrain
    /\ call = NoCall
    /\ conf = NoConf

\* a new script run: no predictor object yet
NoPredictor ==
    /\ model' = None
    /\ is_trained' = FALSE
    /\ scaler_fitted' = FALSE
    /\ train' = NoTrain
    /\ call' = NoCall
    /\ conf' = NoConf

NoRequest ==
    /\ current_price = 0
    /\ historical_data = <<>>
    /\ sentiment_score = 0
    /\ prediction = 0
    /\ record_id = NoId

NoText == [kind |-> "nonstr", polarity |-> 0, pos |-> 0, neg |-> 0]
NoInput == [is_list |-> TRUE, list |-> <<>>, text |-> NoText]
NoSentiment == [done |-> FALSE, op |-> "none", sentiment_score |-> 0, sentiment_label |-> "none",
                positive_count |-> 0, negative_count |-> 0, neutral_count |-> 0,
                detailed_scores |-> <<>>]
NoInfo == [called |-> FALSE, is_trained |-> FALSE, model_type |-> "none"]
NoOp == [name |-> "none", days |-> 0, result |-> 0, raised |-> FALSE]

\* nothing analysed, no predictor call answered, a database file just created
NoAnalysis == texts = NoInput /\ analysis = NoSentiment
NoHistory == previous = "none" /\ info = NoInfo
NewStore == now = 0 /\ last_id = 0 /\ last_op = NoOp

----------------------------------------------------------------------------
(* SpecFeatures: _prepare_features applied to the frames get_realtime_data returns *)

\* frames of 0..MaxLen bars, oldest first
Frames ==
    UNION {[1..n -> Closes \X Volumes] : n \in 0..MaxLen}

FrameOf(f) == [i \in 1..Len(f) |-> [ts |-> i, close |-> f[i][1], vol |-> f[i][2]]]

InitFeatures ==
    /\ \E f \in Frames : data = FrameOf(f)
    /\ features = NoFeatures
    /\ pc = "features"
    /\ NewPredictor
    /\ NoRequest
    /\ db = <<>>
    /\ requests = 0
    /\ NoAnalysis
    /\ NoHistory
    /\ NewStore

PrepareFeatures ==
    /\ pc = "features"
    /\ ~features.done
    /\ features' = [done |-> TRUE, raised |-> FALSE, rows |-> prepare_features(data)]
    /\ UNCHANGED <<data, pc>>
    /\ UNCHANGED predictorVars
    /\ UNCHANGED appVars
    /\ UNCHANGED nlpVars
    /\ UNCHANGED lifeVars
    /\ UNCHANGED storeVars

NextFeatures == PrepareFeatures

SpecFeatures == InitFeatures /\ [][NextFeatures]_vars

----------------------------------------------------------------------------
(* The predictor's operations, as actions *)

\* PricePredictor(ticker): __init__ with _train_model, for a ticker whose
\* closes are c
Construct(c) ==
    \E raw \in DailyFrames(c, 0..MaxBars), step \in TrainSteps \cup {NoFailure}, scoreRF \in Scores,
       scoreLR \in Scores :
      \E fetched \in {get_realtime_data(raw)} :
        LET reached == fetched.ok /\ Len(fetched.df) >= 10
            failAt == IF reached THEN step ELSE NoFailure
            r == train_model(fetched, failAt, scoreRF, scoreLR)
        IN  /\ model' = r.model
            /\ is_trained' = r.is_trained
            /\ scaler_fitted' = r.scaler_fitted
            /\ train' = [done |-> TRUE, raised |-> r.raised, ok |-> fetched.ok,
                         bars |-> Len(fetched.df), failAt |-> failAt,
                         scoreRF |-> IF r.model # None THEN scoreRF ELSE 0,
                         scoreLR |-> IF r.model # None THEN scoreLR ELSE 0]
            /\ call' = NoCall
            /\ conf' = NoConf

\* variant: a failed inference also clears is_trained
PredictNext_clears_flag(cp, s, bases, factors) ==
    \E raw \in IF is_trained /\ model # None THEN DailyFrames(cp, PredictBars)
               ELSE {[raised |-> TRUE, rows |-> <<>>]} :
      \E fetched \in {get_realtime_data(raw)} :
        \E stepFails \in IF is_trained /\ model # None /\ fetched.ok /\ Len(fetched.df) >= 5
                          THEN BOOLEAN ELSE {FALSE} :
          LET infers == /\ is_trained /\ model # None
                        /\ fetched.ok /\ Len(fetched.df) >= 5
                        /\ ~stepFails
          IN  \E base \in IF infers THEN bases ELSE {0},
                 u \in IF infers THEN {0} ELSE factors :
                  /\ call' \in predict_next(is_trained, model, cp, s, fetched,
                                            stepFails, base, u)
                  /\ is_trained' = (is_trained /\ call'.cause # "inference_failed")
                  /\ UNCHANGED <<model, scaler_fitted, train, conf>>

\* predictor.predict_next(cp, s).  An input is drawn only where the call
\* consumes it: the frame when the predictor is trained, the regressor's output
\* when inference is reached, the random factor when _simple_predict runs.
PredictNext(cp, s, bases, factors) ==
    \E raw \in IF is_trained /\ model # None THEN DailyFrames(cp, PredictBars)
               ELSE {[raised |-> TRUE, rows |-> <<>>]} :
      \E fetched \in {get_realtime_data(raw)} :
        \E stepFails \in IF is_trained /\ model # None /\ fetched.ok /\ Len(fetched.df) >= 5
                          THEN BOOLEAN ELSE {FALSE} :
          LET infers == /\ is_trained /\ model # None
                        /\ fetched.ok /\ Len(fetched.df) >= 5
                        /\ ~stepFails
          IN  \E base \in IF infers THEN bases ELSE {0},
                 u \in IF infers THEN {0} ELSE factors :
                  /\ call' \in predict_next(is_trained, model, cp, s, fetched,
                                            stepFails, base, u)
                  /\ UNCHANGED <<model, is_trained, scaler_fitted, train, conf>>

\* predictor.get_prediction_confidence(cp, pred)
GetPredictionConfidence(cp, pred) ==
    /\ conf' = [called |-> TRUE, trained |-> is_trained, current_price |-> cp,
                prediction |-> pred,
                value |-> get_prediction_confidence(is_trained, cp, pred)]
    /\ UNCHANGED <<model, is_trained, scaler_fitted, train, call>>

----------------------------------------------------------------------------
(* SpecPredictor: one PricePredictor, constructed and then called *)

InitPredictor ==
    /\ data = <<>>
    /\ features = NoFeatures
    /\ pc = "new"
    /\ NewPredictor
    /\ NoRequest
    /\ db = <<>>
    /\ requests = 0
    /\ NoAnalysis
    /\ NoHistory
    /\ NewStore

PConstruct ==
    /\ pc = "new"
    /\ \E c \in Prices : Construct(c)
    /\ pc' = IF train'.raised THEN "raised" ELSE "ready"
    /\ UNCHANGED featureVars
    /\ UNCHANGED nlpVars
    /\ UNCHANGED lifeVars
    /\ UNCHANGED storeVars
    /\ UNCHANGED appVars

PPredictNext ==
    /\ pc = "ready"
    /\ \E cp \in Prices, s \in Sentiments : PredictNext(cp, s, BasePredictions, RandomFactors)
    /\ pc' = IF call'.raised THEN "raised" ELSE "ready"
    /\ UNCHANGED featureVars
    /\ UNCHANGED nlpVars
    /\ UNCHANGED lifeVars
    /\ UNCHANGED storeVars
    /\ UNCHANGED appVars

PGetPredictionConfidence ==
    /\ pc = "ready"
    /\ \E cp \in Prices, pred \in ConfPredictions : GetPredictionConfidence(cp, pred)
    /\ UNCHANGED pc
    /\ UNCHANGED featureVars
    /\ UNCHANGED nlpVars
    /\ UNCHANGED lifeVars
    /\ UNCHANGED storeVars
    /\ UNCHANGED appVars

NextPredictor == PConstruct \/ PPredictNext

SpecPredictor == InitPredictor /\ [][NextPredictor]_vars

\* SpecConfidence: one PricePredictor, constructed and then asked for confidences
NextConfidence == PConstruct \/ PGetPredictionConfidence

SpecConfidence == InitPredictor /\ [][NextConfidence]_vars

----------------------------------------------------------------------------
(* SpecLifetime: one PricePredictor, constructed and then asked, in any order *)
(* and any number of times, for predictions, for the confidence of the last   *)
(* prediction and for its model info                                          *)

LifePrices == {100}
LifeSentiments == {0, 50}
LifeBasePredictions == {100, 104}
LifeRandomFactors == {100}

\* prediction = predictor.predict_next(cp, s), one call after another
RepeatPredictNext ==
    /\ pc = "ready"
    /\ \E cp \in LifePrices, s \in LifeSentiments :
        PredictNext(cp, s, LifeBasePredictions, LifeRandomFactors)
    /\ pc' = IF call'.raised THEN "raised" ELSE "ready"
    /\ previous' = call.cause
    /\ UNCHANGED info
    /\ UNCHANGED featureVars
    /\ UNCHANGED appVars
    /\ UNCHANGED nlpVars
    /\ UNCHANGED storeVars

\* predictor.get_prediction_confidence(cp, prediction) for the last prediction
ConfidenceOfPrediction ==
    /\ pc = "ready"
    /\ call.path # "none"
    /\ GetPredictionConfidence(call.current_price, call.value)
    /\ UNCHANGED pc
    /\ UNCHANGED lifeVars
    /\ UNCHANGED featureVars
    /\ UNCHANGED appVars
    /\ UNCHANGED nlpVars
    /\ UNCHANGED storeVars

\* predictor.get_model_info()
GetModelInfo ==
    /\ pc = "ready"
    /\ info' = get_model_info(is_trained, model)
    /\ UNCHANGED <<pc, previous>>
    /\ UNCHANGED predictorVars
    /\ UNCHANGED featureVars
    /\ UNCHANGED appVars
    /\ UNCHANGED nlpVars
    /\ UNCHANGED storeVars

NextLifetime == PConstruct \/ RepeatPredictNext \/ ConfidenceOfPrediction \/ GetModelInfo

SpecLifetime == InitPredictor /\ [][NextLifetime]_vars

----------------------------------------------------------------------------
(* SpecSentiment: the sentiment analysis applied to a list of texts or a text *)

TextLists == UNION {[1..n -> TextItems] : n \in 0..MaxTexts}

TextInputs ==
    {[is_list |-> TRUE, list |-> l, text |-> NoText] : l \in TextLists}
    \cup {[is_list |-> FALSE, list |-> <<>>, text |-> t] : t \in {u \in TextItems : IsStr(u)}}

InitSentiment ==
    /\ texts \in TextInputs
    /\ analysis = NoSentiment
    /\ pc = "nlp"
    /\ data = <<>>
    /\ features = NoFeatures
    /\ NewPredictor
    /\ NoRequest
    /\ db = <<>>
    /\ requests = 0
    /\ NoHistory
    /\ NewStore

\* score = analyze_sentiment(texts)
AnalyzeSentiment ==
    /\ pc = "nlp"
    /\ ~analysis.done
    /\ \E v \in analyze_sentiment(texts) :
        analysis' = [NoSentiment EXCEPT !.done = TRUE, !.op = "analyze_sentiment",
                                        !.sentiment_score = v]
    /\ UNCHANGED <<texts, pc>>
    /\ UNCHANGED featureVars
    /\ UNCHANGED predictorVars
    /\ UNCHANGED appVars
    /\ UNCHANGED lifeVars
    /\ UNCHANGED storeVars

\* sentiment_result = analyze_news_sentiment(news_headlines)
AnalyzeNewsSentiment ==
    /\ pc = "nlp"
    /\ ~analysis.done
    /\ texts.is_list
    /\ \E r \in analyze_news_sentiment(texts.list) :
        analysis' = [done |-> TRUE, op |-> "analyze_news_sentiment",
                     sentiment_score |-> r.sentiment_score,
                     sentiment_label |-> r.sentiment_label,
                     positive_count |-> r.positive_count,
                     negative_count |-> r.negative_count,
                     neutral_count |-> r.neutral_count,
                     detailed_scores |-> r.detailed_scores]
    /\ UNCHANGED <<texts, pc>>
    /\ UNCHANGED featureVars
    /\ UNCHANGED predictorVars
    /\ UNCHANGED appVars
    /\ UNCHANGED lifeVars
    /\ UNCHANGED storeVars

NextSentiment == AnalyzeSentiment \/ AnalyzeNewsSentiment

SpecSentiment == InitSentiment /\ [][NextSentiment]_vars

----------------------------------------------------------------------------
(* utils/db_manager.py: save_record *)

\* the row INSERTed; confidence_score takes the parameter's default 0.5 (tenths),
\* timestamp the column's default CURRENT_TIMESTAMP
Row(id, price, pred, sentiment, timestamp) ==
    [id |-> id, timestamp |-> timestamp, current_price |-> price, predicted_price |-> pred,
     sentiment_score |-> sentiment, confidence_score |-> 5]

\* the table and the returned id after save_record; when the INSERT raises the
\* exception is caught, nothing is stored and None is returned
\* variant: the statement is INSERT OR REPLACE and the id is the row count + 1
save_record_replaces(rows, seq, clock, price, pred, sentiment, insertOk) ==
    LET id == Len(rows) + 1
        Other(r) == r.id # id
        kept == SelectSeq(rows, Other)
    IN  IF insertOk
        THEN [rows |-> Append(kept, Row(id, price, pred, sentiment, clock)),
              id |-> id, seq |-> Max(seq, id)]
        ELSE [rows |-> rows, id |-> NoId, seq |-> seq]

\* the table, the returned id and the AUTOINCREMENT counter after save_record;
\* when the INSERT raises the exception is caught, nothing is stored and None is
\* returned
save_record(rows, seq, clock, price, pred, sentiment, insertOk) ==
    IF insertOk
    THEN [rows |-> Append(rows, Row(seq + 1, price, pred, sentiment, clock)),
          id |-> seq + 1, seq |-> seq + 1]
    ELSE [rows |-> rows, id |-> NoId, seq |-> seq]

\* clean_old_records(days): DELETE ... WHERE timestamp < datetime('now', '-days days');
\* returns cursor.rowcount, and 0 with nothing deleted when the statement raises
clean_old_records(rows, clock, days, deleteOk) ==
    LET Recent(r) == ~(r.timestamp < clock - days)
        kept == SelectSeq(rows, Recent)
    IN  IF deleteOk
        THEN [rows |-> kept, deleted_count |-> Len(rows) - Len(kept)]
        ELSE [rows |-> rows, deleted_count |-> 0]

----------------------------------------------------------------------------
(* SpecStore: the operations of DatabaseManager on one database file, and the *)
(* application's button that clears the history                               *)

StorePrices == {100}
StorePredictions == {100, 105}
StoreSentiments == {0}
CleanDays == {0, 1}                 \* the days argument of clean_old_records

\* the methods that only SELECT from the table or copy the file
ReadOps == {"fetch_history", "get_statistics", "get_ticker_performance",
            "export_to_csv", "get_recent_analyses", "backup_database"}

InitStore ==
    /\ data = <<>>
    /\ features = NoFeatures
    /\ pc = "store"
    /\ NewPredictor
    /\ NoRequest
    /\ db = <<>>
    /\ requests = 0
    /\ NoAnalysis
    /\ NoHistory
    /\ NewStore

\* db_manager.save_record(ticker, price, prediction, sentiment)
StoreSaveRecord ==
    /\ pc = "store"
    /\ last_id < MaxRows
    /\ \E price \in StorePrices, pred \in StorePredictions, s \in StoreSentiments,
          insertOk \in BOOLEAN :
        LET r == save_record(db, last_id, now, price, pred, s, insertOk)
        IN  /\ db' = r.rows
            /\ last_id' = r.seq
            /\ last_op' = [name |-> "save_record", days |-> 0, result |-> r.id,
                           raised |-> FALSE]
    /\ UNCHANGED <<pc, now, current_price, historical_data, sentiment_score, prediction,
                   record_id, requests>>
    /\ UNCHANGED featureVars
    /\ UNCHANGED predictorVars
    /\ UNCHANGED nlpVars
    /\ UNCHANGED lifeVars

\* db_manager.clean_old_records(days)
StoreCleanOldRecords ==
    /\ pc = "store"
    /\ \E days \in CleanDays, deleteOk \in BOOLEAN :
        LET r == clean_old_records(db, now, days, deleteOk)
        IN  /\ db' = r.rows
            /\ last_op' = [name |-> "clean_old_records", days |-> days,
                           result |-> r.deleted_count, raised |-> FALSE]
    /\ UNCHANGED <<pc, now, last_id, current_price, historical_data, sentiment_score,
                   prediction, record_id, requests>>
    /\ UNCHANGED featureVars
    /\ UNCHANGED predictorVars
    /\ UNCHANGED nlpVars
    /\ UNCHANGED lifeVars

\* fetch_history, get_statistics, get_ticker_performance, export_to_csv,
\* get_recent_analyses, backup_database
StoreRead ==
    /\ pc = "store"
    /\ \E name \in ReadOps :
        last_op' = [name |-> name, days |-> 0, result |-> Len(db), raised |-> FALSE]
    /\ UNCHANGED <<pc, now, last_id>>
    /\ UNCHANGED appVars
    /\ UNCHANGED featureVars
    /\ UNCHANGED predictorVars
    /\ UNCHANGED nlpVars
    /\ UNCHANGED lifeVars

\* the button of main(): db_manager.clear_all_history() is not a method of
\* DatabaseManager, so the call raises AttributeError before anything is deleted
ClearAllHistory ==
    /\ pc = "store"
    /\ last_op' = [name |-> "clear_all_history", days |-> 0, result |-> 0, raised |-> TRUE]
    /\ UNCHANGED <<pc, now, last_id>>
    /\ UNCHANGED appVars
    /\ UNCHANGED featureVars
    /\ UNCHANGED predictorVars
    /\ UNCHANGED nlpVars
    /\ UNCHANGED lifeVars

\* a day passes
Tick ==
    /\ pc = "store"
    /\ now < MaxDays
    /\ now' = now + 1
    /\ UNCHANGED <<pc, last_id, last_op>>
    /\ UNCHANGED appVars
    /\ UNCHANGED featureVars
    /\ UNCHANGED predictorVars
    /\ UNCHANGED nlpVars
    /\ UNCHANGED lifeVars

NextStore == StoreSaveRecord \/ StoreCleanOldRecords \/ StoreRead \/ ClearAllHistory \/ Tick

SpecStore == InitStore /\ [][NextStore]_vars

----------------------------------------------------------------------------
(* Spec: app.py main(), the analysis request, one script run after another *)

Init ==
    /\ data = <<>>
    /\ features = NoFeatures
    /\ pc = "idle"
    /\ NewPredictor
    /\ NoRequest
    /\ db = <<>>
    /\ requests = 0
    /\ NoAnalysis
    /\ NoHistory
    /\ NewStore

\* the button is pressed: get_realtime_data, get_news, analyze_news_sentiment.
\* A failed fetch raises into main()'s except, which reports the error.
StartAnalysis ==
    /\ pc = "idle"
    /\ requests < MaxRequests
    /\ requests' = requests + 1
    /\ \E c \in AppPrices, s \in AppSentiments :
        \E raw \in DailyFrames(c, AppBars) :
          \E fetched \in {get_realtime_data(raw)} :
            IF fetched.ok
            THEN /\ current_price' = fetched.current_price
                 /\ historical_data' = fetched.df
                 /\ sentiment_score' = s
                 /\ pc' = "fetched"
            ELSE /\ current_price' = 0
                 /\ historical_data' = <<>>
                 /\ sentiment_score' = 0
                 /\ pc' = "failed"
    /\ prediction' = 0
    /\ record_id' = NoId
    /\ NoPredictor
    /\ UNCHANGED db
    /\ UNCHANGED featureVars
    /\ UNCHANGED nlpVars
    /\ UNCHANGED lifeVars
    /\ UNCHANGED storeVars

\* predictor = PricePredictor(ticker)
AppConstruct ==
    /\ pc = "fetched"
    /\ Construct(current_price)
    /\ pc' = IF train'.raised THEN "failed" ELSE "constructed"
    /\ UNCHANGED featureVars
    /\ UNCHANGED nlpVars
    /\ UNCHANGED lifeVars
    /\ UNCHANGED storeVars
    /\ UNCHANGED appVars

\* prediction = predictor.predict_next(current_price, sentiment_score)
AppPredict ==
    /\ pc = "constructed"
    /\ PredictNext(current_price, sentiment_score, AppBasePredictions, AppRandomFactors)
    /\ pc' = IF call'.raised THEN "failed" ELSE "predicted"
    /\ prediction' = IF call'.raised THEN prediction ELSE call'.value
    /\ UNCHANGED <<current_price, historical_data, sentiment_score, record_id, db, requests>>
    /\ UNCHANGED featureVars
    /\ UNCHANGED nlpVars
    /\ UNCHANGED lifeVars
    /\ UNCHANGED storeVars

\* variant: the record is saved before predict_next is called
SaveRecord_early ==
    /\ pc \in {"constructed", "predicted"}
    /\ \E insertOk \in BOOLEAN :
        LET r == save_record(db, last_id, now, current_price, prediction,
                             sentiment_score, insertOk)
        IN  /\ db' = r.rows
            /\ record_id' = r.id
            /\ last_id' = r.seq
            /\ last_op' = [name |-> "save_record", days |-> 0, result |-> r.id,
                           raised |-> FALSE]
    /\ pc' = "done"
    /\ UNCHANGED <<current_price, historical_data, sentiment_score, prediction, requests>>
    /\ UNCHANGED predictorVars
    /\ UNCHANGED featureVars
    /\ UNCHANGED nlpVars
    /\ UNCHANGED lifeVars
    /\ UNCHANGED now

\* if db_manager: db_manager.save_record(ticker, current_price, prediction, sentiment_score)
SaveRecord ==
    /\ pc = "predicted"
    /\ \E insertOk \in BOOLEAN :
        LET r == save_record(db, last_id, now, current_price, prediction,
                             sentiment_score, insertOk)
        IN  /\ db' = r.rows
            /\ record_id' = r.id
            /\ last_id' = r.seq
            /\ last_op' = [name |-> "save_record", days |-> 0, result |-> r.id,
                           raised |-> FALSE]
    /\ pc' = "done"
    /\ UNCHANGED <<current_price, historical_data, sentiment_score, prediction, requests>>
    /\ UNCHANGED predictorVars
    /\ UNCHANGED featureVars
    /\ UNCHANGED nlpVars
    /\ UNCHANGED lifeVars
    /\ UNCHANGED now

\* the script run ends; the next interaction runs main() again
Rerun ==
    /\ pc \in {"done", "failed"}
    /\ pc' = "idle"
    /\ UNCHANGED predictorVars
    /\ UNCHANGED featureVars
    /\ UNCHANGED nlpVars
    /\ UNCHANGED lifeVars
    /\ UNCHANGED storeVars
    /\ UNCHANGED appVars

Next == StartAnalysis \/ AppConstruct \/ AppPredict \/ SaveRecord \/ Rerun

Spec == Init /\ [][Next]_vars

----------------------------------------------------------------------------
(* Properties *)

\* C1 (SpecPredictor): on the model path the value predict_next returns, after
\* round(x, 2), lies within [current_price*0.95, current_price*1.05].
C1_ModelPathWithinBand ==
    call.path = "model" =>
        /\ call.value * 10000 >= call.current_price * 9500
        /\ call.value * 10000 <= call.current_price * 10500

\* C2 (SpecPredictor): predict_next never raises: untrained, a short series at
\* call time or a failing feature/scaling/inference step all end in a value of
\* the simple path, i.e. a value within half a cent of
\* current_price * (1 + sentiment*0.02) * u for the u drawn in [0.98, 1.02].
C2_PredictNextNeverRaises ==
    /\ pc # "raised"
    /\ ~call.raised
    /\ call.cause \in {"untrained", "short", "inference_failed"} =>
        /\ call.path = "simple"
        /\ call.u >= 98 /\ call.u <= 102
        /\ 2 * Abs(call.value * 500000
                   - call.current_price * (5000 + call.sentiment_score) * call.u) <= 500000
    /\ (call.path # "none" /\ (~is_trained \/ model = None)) => call.cause = "untrained"

C2_Witness == call.cause = "inference_failed" /\ call.path = "simple" /\ is_trained

\* C3 (Spec): a market-data failure in any fetch of a request (main's, the one
\* in training, the one in predict_next) ends the request as failed and no
\* record is stored for it.
C3_UpstreamFailureIsTerminal ==
    ((train.done /\ ~train.ok) \/ call.cause = "fetch_failed") =>
        /\ pc \in {"failed", "idle"}
        /\ record_id = NoId

\* C4 (SpecPredictor): a series that leaves fewer than 5 feature rows after the
\* first-row drop (at most 5 bars) leaves the predictor untrained, construction
\* does not raise, and predict_next then returns a simple-path value.
C4_ShortSeriesSkipsTraining ==
    (train.done /\ train.ok /\ train.bars - 1 < 5) =>
        /\ ~train.raised
        /\ ~is_trained
        /\ model = None
        /\ call.path # "none" => (~call.raised /\ call.path = "simple")

C4_Witness ==
    train.done /\ train.ok /\ train.bars = 4 /\ call.path = "simple" /\ ~is_trained

\* C5 (SpecPredictor): construction never raises, and after a failed fetch or a
\* failed training step the predictor is untrained.
C5_TrainingFailureCaught ==
    train.done =>
        /\ ~train.raised
        /\ pc # "raised"
        /\ (~train.ok \/ train.failAt # NoFailure) => ~is_trained

C5_Witness == train.done /\ train.failAt = "metrics" /\ ~is_trained

\* C6 as stated (SpecPredictor): the simple-path value is the rounded product for
\* some u in [0.98, 1.02], hence within [0.98, 1.02]*current_price when
\* sentiment = 0 and within [0.98*0.98, 1.02*1.02]*current_price always.
C6_SimpleWithinBands ==
    call.path = "simple" =>
        /\ call.u >= 98 /\ call.u <= 102
        /\ 2 * Abs(call.value * 500000
                   - call.current_price * (5000 + call.sentiment_score) * call.u) <= 500000
        /\ call.sentiment_score = 0 =>
            /\ call.value * 100 >= call.current_price * 98
            /\ call.value * 100 <= call.current_price * 102
        /\ call.value * 10000 >= call.current_price * 9604
        /\ call.value * 10000 <= call.current_price * 10404

\* C6 amended (SpecPredictor): the simple-path value is within half a cent of
\* current_price * (1 + sentiment*0.02) * u for the u drawn in [0.98, 1.02]; hence
\* within half a cent of [0.98, 1.02]*current_price when sentiment = 0 and within
\* half a cent of [0.98*0.98, 1.02*1.02]*current_price always.
C6_SimpleRounded ==
    call.path = "simple" =>
        /\ call.u >= 98 /\ call.u <= 102
        /\ 2 * Abs(call.value * 500000
                   - call.current_price * (5000 + call.sentiment_score) * call.u) <= 500000
        /\ call.sentiment_score = 0 =>
            /\ call.value * 100 >= call.current_price * 98 - 50
            /\ call.value * 100 <= call.current_price * 102 + 50
        /\ call.value * 10000 >= call.current_price * 9604 - 5000
        /\ call.value * 10000 <= call.current_price * 10404 + 5000

C6_Witness ==
    /\ call.path = "simple" /\ call.sentiment_score = 0 /\ call.u = 102
    /\ call.value * 100 > call.current_price * 102

\* C7 (SpecPredictor): the multiplier of the model path by band of sentiment
\* (hundredths): >= 0.5: 1.005; [0.2, 0.5): 1.002; (-0.2, 0.2): 1.000;
\* (-0.5, -0.2]: 0.998; <= -0.5: 0.995.
C7_SentimentBands ==
    call.path = "model" =>
        LET s == call.sentiment_score
        IN  /\ (s >= 50) => call.factor = 1005
            /\ (20 <= s /\ s < 50) => call.factor = 1002
            /\ (-20 < s /\ s < 20) => call.factor = 1000
            /\ (-50 < s /\ s <= -20) => call.factor = 998
            /\ (s <= -50) => call.factor = 995

C7_Witness == call.path = "model" /\ call.sentiment_score = -20 /\ call.factor = 998

\* C8 (SpecConfidence): the confidence (tenths) is the bucket of
\* r = |prediction - current_price| / current_price, plus 0.1 when trained,
\* capped at 1.0, and within [0, 1].
C8_ConfidenceBuckets ==
    conf.called =>
        LET d == Abs(conf.prediction - conf.current_price) * 100
            cp == conf.current_price
            bucket == CASE d <= cp -> 9
                        [] cp < d /\ d <= 3 * cp -> 7
                        [] 3 * cp < d /\ d <= 5 * cp -> 5
                        [] d > 5 * cp -> 3
            bonus == IF is_trained THEN 1 ELSE 0
        IN  /\ conf.value = (IF bucket + bonus > 10 THEN 10 ELSE bucket + bonus)
            /\ conf.value >= 0 /\ conf.value <= 10

C8_Witness ==
    /\ conf.called /\ is_trained /\ conf.value = 6
    /\ conf.current_price = 100 /\ conf.prediction = 105

\* C9 (SpecConfidence): between two successive confidence calls with the same
\* current_price on one predictor, a deviation that does not shrink gives a
\* confidence that does not grow.
C9_ConfidenceMonotone ==
    [][(/\ conf.called /\ conf'.called
        /\ is_trained' = is_trained
        /\ conf'.current_price = conf.current_price
        /\ Abs(conf.prediction - conf.current_price)
             <= Abs(conf'.prediction - conf'.current_price))
       => conf'.value <= conf.value]_vars

C9_Witness ==
    /\ conf.called /\ conf.current_price = 100 /\ conf.prediction = 96
    /\ conf.value = 5

\* C10 (SpecFeatures): _prepare_features returns one row per bar without
\* raising, row i computed at bar i of the ascending series: its prev_close is
\* the close of bar i-1 (bar 1 for i = 1) and its window ends at bar i.
C10_OneRowPerBar ==
    features.done =>
        /\ ~features.raised
        /\ Len(features.rows) = Len(data)
        /\ \A i \in 1..Len(data) :
            LET bar(k) == CHOOSE b \in {data[j] : j \in 1..Len(data)} :
                              Cardinality({j \in 1..Len(data) : data[j].ts < b.ts}) = k - 1
                row == features.rows[i]
            IN  /\ row.prev_close = bar(IF i > 1 THEN i - 1 ELSE 1).close
                /\ i < 5 => (row.ma_5.num = bar(i).close * row.ma_5.den)
                /\ i >= 5 => (row.ma_5.num - bar(i).close
                                = bar(i - 1).close + bar(i - 2).close
                                  + bar(i - 3).close + bar(i - 4).close)

C10_Witness == features.done /\ Len(data) = 3 /\ Len(features.rows) = 3

\* C11 (SpecFeatures): for a series of at least 5 bars and every index i >= 4
\* (row i+1 here), moving_avg_5 is the mean of the 5 closes ending at i and
\* volume_ma_5 the mean of the 5 volumes ending at i.
C11_FullWindowMeans ==
    features.done =>
        \A i \in 5..Len(data) :
            LET row == features.rows[i]
            IN  /\ row.ma_5.num * 5
                     = row.ma_5.den * (data[i - 4].close + data[i - 3].close
                                       + data[i - 2].close + data[i - 1].close
                                       + data[i].close)
                /\ row.volume_ma.num * 5
                     = row.volume_ma.den * (data[i - 4].vol + data[i - 3].vol
                                            + data[i - 2].vol + data[i - 1].vol
                                            + data[i].vol)

C11_Witness ==
    /\ features.done /\ Len(data) = 6
    /\ data[1].close # data[6].close /\ data[1].vol # data[6].vol

\* C12 (SpecFeatures): for every index i < 4 (rows 1..4 here) moving_avg_5 is the
\* mean of the closes 0..i and volume_ma_5 the mean of the volumes 0..i.
C12_ShortWindowMeans ==
    features.done =>
        \A i \in 1..Min(4, Len(data)) :
            LET row == features.rows[i]
                closes == [k \in 1..i |-> data[k].close]
                volumes == [k \in 1..i |-> data[k].vol]
            IN  /\ row.ma_5.num * i = row.ma_5.den * SumSeq(closes)
                /\ row.volume_ma.num * i = row.volume_ma.den * SumSeq(volumes)

\* C13 (SpecFeatures): previous_close at i is the close at i-1, and the close at
\* 0 for i = 0; a series of one bar gives one row with previous_close = close[0];
\* row i is the same whatever bars follow bar i.
C13_PreviousCloseNoLookAhead ==
    features.done =>
        /\ \A i \in 1..Len(data) :
            /\ i > 1 => features.rows[i].prev_close = data[i - 1].close
            /\ i = 1 => features.rows[i].prev_close = data[1].close
            /\ features.rows[i] = prepare_features(SubSeq(data, 1, i))[i]
        /\ Len(data) = 1 => Len(features.rows) = 1

C13_Witness ==
    /\ features.done /\ Len(data) = 2 /\ data[1].close # data[2].close
    /\ features.rows[2].prev_close = data[1].close

\* C14 (SpecFeatures): volatility_5 at i is the deviation (here its square) of the
\* returns over the window [max(0, i-4), i]: 0 when the window has at most one
\* return (i = 0, i = 1), the deviation of the 2 or 3 returns for i = 2, 3.
C14_VolatilityOverClampedWindow ==
    features.done =>
        \A i \in 1..Len(data) :
            LET row == features.rows[i]
                closes == [k \in 1..Len(data) |-> data[k].close]
                v == ReturnsVariance(SubSeq(closes, Max(1, i - 4), i))
            IN  IF i <= 2 THEN row.volatility.num = 0
                ELSE row.volatility.num * v.den = v.num * row.volatility.den

\* C15 (SpecSentiment): an empty list of texts or headlines gives the sentiment
\* 0 from analyze_sentiment and from analyze_news_sentiment, and the sentiment 0
\* has the multiplier 1.000, so that the blended estimate is the base estimate.
C15_EmptyInputIsNeutral ==
    (analysis.done /\ texts.is_list /\ texts.list = <<>>) =>
        /\ analysis.sentiment_score = 0
        /\ SentimentFactor(analysis.sentiment_score \div 10) = 1000
        /\ \A base \in BasePredictions :
            Blend(base, analysis.sentiment_score \div 10) = base * AdjDen

C15_Witness ==
    /\ analysis.done /\ analysis.op = "analyze_news_sentiment"
    /\ texts.is_list /\ texts.list = <<>>

\* C16 (SpecSentiment): for a single string and for every list, whatever it holds,
\* the score of analyze_sentiment and the sentiment_score (and every detailed
\* score) of analyze_news_sentiment lie in [-1, 1].
C16_SentimentWithinUnitInterval ==
    analysis.done =>
        /\ analysis.sentiment_score \in -1000..1000
        /\ \A i \in 1..Len(analysis.detailed_scores) :
            analysis.detailed_scores[i] \in -1000..1000

C16_Witness ==
    /\ analysis.done /\ analysis.op = "analyze_news_sentiment"
    /\ Len(texts.list) = 3
    /\ \E i \in 1..3 : texts.list[i].kind = "nonstr"
    /\ \E i \in 1..3 : texts.list[i].kind = "text" /\ texts.list[i].pos = 9
                       /\ texts.list[i].polarity = 850
    /\ \E i \in 1..3 : texts.list[i].kind = "empty"
    /\ analysis.sentiment_score = 300

C19_CallsLeavePredictorUnchanged ==
    [][pc = "ready" =>
        /\ model' = model
        /\ is_trained' = is_trained
        /\ scaler_fitted' = scaler_fitted
        /\ (call' # call /\ is_trained /\ model # None) => call'.cause # "untrained"]_vars

C19_Witness ==
    /\ previous = "inference_failed"
    /\ call.path = "model" /\ call.cause = "model"
    /\ is_trained /\ info.called /\ info.model_type = model

\* C20 (SpecLifetime), as stated: the confidence of a prediction carries the +0.1
\* bonus exactly when that prediction came from the model path; a prediction of
\* the simple fallback path does not receive it.
C20_BonusOnlyForModelPath ==
    [][(conf' # conf /\ conf'.called) =>
        LET cp == conf'.current_price
            change == Abs(conf'.prediction - cp)
            bucket == IF change * 100 <= cp THEN 9
                      ELSE IF change * 100 <= 3 * cp THEN 7
                      ELSE IF change * 100 <= 5 * cp THEN 5
                      ELSE 3
        IN  /\ call.path = "model" => conf'.value = bucket + 1
            /\ call.path = "simple" => conf'.value = bucket]_vars

\* C20 (SpecLifetime), amended: for a positive current price the confidence
\* carries the +0.1 bonus exactly when the predictor is trained at the time of
\* the call, whichever path produced the prediction: a fallback prediction of a
\* trained predictor receives it, a prediction of an untrained one does not.
C20_BonusIffTrained ==
    [][(conf' # conf /\ conf'.called) =>
        LET cp == conf'.current_price
            change == Abs(conf'.prediction - cp)
            bucket == IF change * 100 <= cp THEN 9
                      ELSE IF change * 100 <= 3 * cp THEN 7
                      ELSE IF change * 100 <= 5 * cp THEN 5
                      ELSE 3
        IN  /\ is_trained => conf'.value = bucket + 1
            /\ ~is_trained => conf'.value = bucket]_vars

C20_Witness ==
    /\ conf.called /\ is_trained
    /\ call.path = "simple" /\ call.cause = "short"
    /\ conf.current_price = call.current_price /\ conf.prediction = call.value
    /\ conf.value = 10

\* C21 (SpecPredictor): too few feature rows is the only reason other than a
\* failure to skip training, with the threshold at 5 rows after the first-row
\* drop: a series of 6 or more bars on which the fetch and no training step
\* fails leaves the predictor trained.
C21_SixBarsTrain ==
    (train.done /\ train.ok /\ train.bars >= 6 /\ train.failAt = NoFailure) =>
        /\ is_trained
        /\ model # None

\* C22 (SpecPredictor): the stored model is the candidate with the strictly higher
\* held-out score, the tree ensemble being scored first and the linear model
\* second; on equal scores the tree ensemble is kept; and a trained predictor
\* has one of the two candidates stored.
C22_StrictlyBestFirstOnTies ==
    /\ (train.done /\ model # None) =>
        /\ train.scoreRF > train.scoreLR => model = RandomForest
        /\ train.scoreLR > train.scoreRF => model = LinearRegression
        /\ train.scoreRF = train.scoreLR => model = RandomForest
    /\ is_trained => model \in {RandomForest, LinearRegression}

C22_Witness ==
    /\ train.done /\ is_trained
    /\ train.scoreRF = 1 /\ train.scoreLR = 1
    /\ model = RandomForest

\* C23 (SpecPredictor): on the model path the value before the clamp is
\* base*0.7 + (base*multiplier)*0.3; the clamp leaves a value inside
\* [0.95, 1.05]*current_price as it is and moves any other to the nearer end of
\* the band; the value returned is that result rounded to 2 decimals.
C23_BlendThenClamp ==
    call.path = "model" =>
        LET blended == call.base * 7 * 1000 + call.base * call.factor * 3
            lower == call.current_price * 9500
            upper == call.current_price * 10500
        IN  /\ (lower <= blended /\ blended <= upper) => call.adjusted = blended
            /\ blended < lower => call.adjusted = lower
            /\ blended > upper => call.adjusted = upper
            /\ 2 * Abs(call.value * AdjDen - call.adjusted) <= AdjDen

C23_Witness ==
    /\ call.path = "model" /\ call.base = 104 /\ call.current_price = 100
    /\ call.factor = 1005 /\ call.adjusted = 1041560 /\ call.value = 104

\* C24 (Spec): within a request the steps run in the order fetch, construction
\* (training), prediction, persistence: a record is saved at most once per
\* request, only after predict_next has returned and with the value it returned,
\* and a request starts only when the one before has finished.
C24_RequestStepsInOrder ==
    [][/\ db' # db =>
            /\ pc = "predicted" /\ pc' = "done"
            /\ record_id = NoId
            /\ train.done /\ call.path # "none"
            /\ Len(db') = Len(db) + 1 /\ Len(db') <= requests
            /\ SubSeq(db', 1, Len(db)) = db
            /\ db'[Len(db')].predicted_price = call.value
            /\ db'[Len(db')].current_price = current_price
       /\ (call' # call /\ call'.path # "none") =>
            /\ pc = "constructed" /\ train.done /\ historical_data # <<>>
       /\ (train' # train /\ train'.done) =>
            /\ pc = "fetched" /\ historical_data # <<>>
       /\ requests' # requests =>
            /\ pc = "idle" /\ requests' = requests + 1
            /\ ~train'.done /\ call'.path = "none" /\ record_id' = NoId]_vars

C24_Witness ==
    /\ pc = "done" /\ requests = 2 /\ Len(db) = 2
    /\ record_id = 2 /\ db[2].predicted_price = call.value

\* C25 (SpecLifetime): after construction is_trained is true exactly when a model
\* is stored, so get_model_info never reports is_trained = false with a
\* regressor's model_type, nor is_trained = true with model_type 'Simple'.
C25_TrainedIffModelStored ==
    train.done =>
        /\ is_trained <=> model # None
        /\ info.called =>
            /\ ~(~info.is_trained /\ info.model_type \in {RandomForest, LinearRegression})
            /\ ~(info.is_trained /\ info.model_type = "Simple")

\* C26 (SpecFeatures): for a series of at least 5 bars, the feature row
\* predict_next builds from the last 5 bars is the last row of the features
\* computed on the whole series, as _train_model computes them.
C26_InferenceRowIsTrainingRow ==
    (features.done /\ Len(data) >= 5) =>
        inference_features(data) = <<features.rows[Len(data)]>>

C26_Witness ==
    /\ features.done /\ Len(data) = 6
    /\ data[1].close = 2 /\ data[2].close = 1 /\ data[6].close = 2
    /\ features.rows[6].ma_5.den = 5 /\ features.rows[6].volatility.num > 0

====
